---- MODULE Spec2Model ----
(***************************************************************************)
(* State-machine model of the WebSocket chat gateway of fhirside-chat:     *)
(* the connection registry (src/websocket/connection_manager.py), the      *)
(* per-connection loop ws_chat and the transcript store ChatService        *)
(* (src/app.py), the inbound envelope UserMessage                          *)
(* (src/models/websocket_messages.py) and the telemetry helper             *)
(* emit_tool_call (src/telemetry/event_emitter.py).                        *)
(*                                                                         *)
(* Scheduling is cooperative: an action is the code a task runs between    *)
(* two suspension points (await receive_text, await __aenter__, await      *)
(* agent.run).  Text is modelled as a sequence of tokens, so f-strings     *)
(* and "\n".join are concatenations.                                       *)
(***************************************************************************)
EXTENDS Integers, Sequences, FiniteSets, TLC

\* ---------------------------------------------------------------- bounds
MaxRequests == 2
MaxCalls == 4
MaxSpans == 2

\* ------------------------------------------------------------- universes
\* connection handles in the order the server accepts them, and the tasks
\* serving POST /chat
ConnOrder == <<"ws1", "ws2">>
Conns == {ConnOrder[i] : i \in 1..Len(ConnOrder)}
Https == {"post1"}
Tasks == Conns \cup Https

\* None: the value of dict.get on a missing key (no handle)
NoHandle == "None"

\* query_params.get("session_id", "default"): the parameter or its default
Absent == "<absent>"
DefaultSessionId == "default"
QueryParams == {"A", Absent}
SessionIds == {"A", DefaultSessionId}

\* values a JSON object's member can take in the frames clients send
Missing == "<missing>"
NoContent == <<Missing>>
Contents == {<<"hi">>}
AgentOutputs == {<<"ok">>}
AgentErrors == {<<"boom">>}

\* raw text frames: not JSON at all, a JSON array, or a JSON object with the
\* members type, session_id, content (content possibly missing)
GarbageFrame ==
  [syntax |-> "garbage", shape |-> "none", type |-> Missing,
   session_id |-> Missing, content |-> NoContent]

ArrayFrame ==
  [syntax |-> "json", shape |-> "array", type |-> Missing,
   session_id |-> Missing, content |-> NoContent]

ObjectFrames ==
  [syntax : {"json"}, shape : {"object"}, type : {"invalid_type"},
   session_id : SessionIds, content : Contents \cup {NoContent}]
  \cup
  [syntax : {"json"}, shape : {"object"}, type : {"message"},
   session_id : {"A"}, content : {NoContent}]
  \cup
  [syntax : {"json"}, shape : {"object"}, type : {"message"},
   session_id : SessionIds, content : Contents]

Frames == {GarbageFrame, ArrayFrame} \cup ObjectFrames

\* ----------------------------------------------------------------- state
VARIABLES
  pc,                  \* position of every task (connection loop or POST /chat)
  session_id,          \* ws_chat's local session_id, per connection
  peer,                \* transport state of every connection handle
  user_message,        \* process's arguments (session_id, message), per task
  prompt,              \* process's local prompt, per task
  outbox,              \* frames written to every handle by send_text
  active_connections,  \* ConnectionManager.active_connections
  sessions,            \* ChatService._sessions
  response,            \* POST /chat's ChatResponse, per HTTP task
  nread,               \* frames read so far, per connection
  call,                \* the latest call of send_message, or direct call
  ncalls,              \* direct calls so far
  telemetry,           \* the latest trace query or GET /telemetry exchange
  patient,             \* POST /patient: position and answer of every request
  acquired,            \* tasks whose agent was entered and not yet exited
  completed            \* per session, the process calls that have returned

vars ==
  <<pc, session_id, peer, user_message, prompt, outbox, active_connections,
    sessions, response, nread, call, ncalls, telemetry, patient,
    acquired, completed>>

NoMessage == [session_id |-> Missing, content |-> <<>>]
NoResponse == [session_id |-> Missing, output |-> <<>>]
NoCall ==
  [op |-> "none", key |-> Missing, handle |-> NoHandle, envelope |-> Missing,
   result |-> "none"]

NoTelemetry ==
  [op |-> "none", session_id |-> Missing, backend |-> "none", patched |-> FALSE,
   query |-> "none", status |-> "none", spans |-> <<>>, trace_count |-> 0,
   input |-> <<>>]

\* the tasks serving POST /patient, the ids they are asked for and what the
\* agent's run returns as result.output: None or a PatientClinicalHistory
PatientTasks == {"patient1", "patient2"}
PatientIds == {"p1", "p2"}
NoHistory == [clinical_summary |-> Missing, key_conditions |-> <<>>]
Histories ==
  [clinical_summary : {"Stable"}, key_conditions : {<<>>, <<"Hypertension">>}]
NoPatient ==
  [pc |-> "idle", patient_id |-> Missing, status |-> "none", body |-> NoHistory]

RECURSIVE SumOver(_, _)
SumOver(f, S) ==
  IF S = {} THEN 0
  ELSE LET x == CHOOSE y \in S : TRUE IN f[x] + SumOver(f, S \ {x})

\* ------------------------------------------------------- inbound decoding
\* json.loads(raw_message): raises JSONDecodeError unless the text is JSON
json_loads_ok(raw) == raw.syntax = "json"

\* UserMessage(**message_data): ** needs a mapping, anything else is a TypeError
IsMapping(data) == data.shape = "object"

\* mutant: type declared str instead of Literal["message"]
UserMessageValid_anytype(data) ==
  /\ data.session_id # Missing
  /\ data.content # NoContent

\* pydantic validation of UserMessage: type is Literal["message"], session_id
\* and content are required strings
UserMessageValid(data) ==
  /\ data.type = "message"
  /\ data.session_id # Missing
  /\ data.content # NoContent

\* what lines 105-106 of ws_chat do with a frame
Decode(raw) ==
  IF ~json_loads_ok(raw) THEN "JSONDecodeError"
  ELSE IF ~IsMapping(raw) THEN "TypeError"
  ELSE IF ~UserMessageValid(raw) THEN "ValidationError"
  ELSE "ok"

\* mutant: no except WebSocketDisconnect clause
CaughtByOuterExcept_none(exc) == FALSE

\* the exception ws_chat's outer except clause names (line 130)
CaughtByOuterExcept(exc) == exc = "WebSocketDisconnect"

\* mutant: the inner except clause names JSONDecodeError alone
CaughtByInnerExcept_jsononly(exc) == exc = "JSONDecodeError"

\* line 122: except (json.JSONDecodeError, ValidationError)
CaughtByInnerExcept(exc) == exc \in {"JSONDecodeError", "ValidationError"}

\* str(e): a JSONDecodeError names the position, a ValidationError quotes
\* the offending input
ExceptionText(raw) ==
  IF Decode(raw) = "JSONDecodeError" THEN <<"Expecting value">>
  ELSE <<"validation error for UserMessage, input_value=", raw.type, raw.session_id>>

\* mutant: the bare exception text, without the prefix
InvalidFormatText_bare(raw) == ExceptionText(raw)

\* f"Invalid message format: {str(e)}"
InvalidFormatText(raw) == <<"Invalid message format: ">> \o ExceptionText(raw)

\* ------------------------------------------------------------- envelopes
ErrorMessage(sid, text) == [type |-> "error", session_id |-> sid, error |-> text]

AssistantMessage(sid, content, streaming) ==
  [type |-> "assistant", session_id |-> sid, content |-> content,
   streaming |-> streaming]

ToolCallEvent(sid, tool_call_id, tool_name, arguments) ==
  [type |-> "tool_call", session_id |-> sid, tool_call_id |-> tool_call_id,
   tool_name |-> tool_name, arguments |-> arguments, timestamp |-> "now"]

ToolResultEvent(sid, tool_call_id, tool_name, result, duration_ms) ==
  [type |-> "tool_result", session_id |-> sid, tool_call_id |-> tool_call_id,
   tool_name |-> tool_name, result |-> result, duration_ms |-> duration_ms,
   timestamp |-> "now"]

\* an Optional[int] is <<>> for None and <<n>> for the integer n
OpenAIEvent(event_type, sid, model, duration_ms) ==
  [type |-> event_type, session_id |-> sid, model |-> model,
   duration_ms |-> duration_ms, timestamp |-> "now"]

\* model_dump_json(): fails only on a value JSON cannot express, which of the
\* envelopes above only ToolCallEvent.arguments (Dict[str, Any]) can hold
Serializable(message) ==
  IF message.type = "tool_call" THEN message.arguments # "unserializable" ELSE TRUE

\* ------------------------------------------------------ ConnectionManager
\* mutant: setdefault instead of assignment, the first handle stays
RegistryConnect_keepfirst(reg, ws, sid) ==
  IF reg[sid] = NoHandle THEN [reg EXCEPT ![sid] = ws] ELSE reg

\* connect, after accept: self.active_connections[session_id] = websocket
RegistryConnect(reg, ws, sid) == [reg EXCEPT ![sid] = ws]

\* mutant: the accept handshake awaited after the assignment
ConnectRegistry_recordfirst(reg, ws, sid, accepted) == RegistryConnect(reg, ws, sid)

\* connect lines 15-16: await websocket.accept() comes first, so an accept
\* that raises leaves before the assignment
ConnectRegistry(reg, ws, sid, accepted) ==
  IF accepted THEN RegistryConnect(reg, ws, sid) ELSE reg

\* number of entries of the registry
RegistrySize(reg) == Cardinality({s \in SessionIds : reg[s] # NoHandle})

\* del d[key] raises KeyError when the key is missing
DelRaises(reg, sid) == reg[sid] = NoHandle

\* mutant: del without the membership test
DisconnectDeletes_always(reg, sid) == TRUE

\* disconnect line 20: the del is run only if session_id is in the dict
DisconnectDeletes(reg, sid) == reg[sid] # NoHandle

\* how disconnect ends: "returned", or "raised" when its del raises
DisconnectOutcome(reg, sid) ==
  IF DisconnectDeletes(reg, sid) /\ DelRaises(reg, sid) THEN "raised" ELSE "returned"

\* disconnect: del the entry if present
RegistryDisconnect(reg, sid) ==
  IF DisconnectDeletes(reg, sid) /\ ~DelRaises(reg, sid)
    THEN [reg EXCEPT ![sid] = NoHandle]
    ELSE reg

\* send_message line 25: self.active_connections.get(session_id)
RegistryLookup(reg, sid) == reg[sid]

\* websocket.send_text: raises once the peer is gone
SendTextOk(ws) == peer[ws] = "open"

\* mutant: no except clause around the write
CaughtBySend_none(exc) == FALSE

\* send_message line 35: except Exception catches whatever lines 33-34 raise
CaughtBySend(exc) == TRUE

\* how send_message ends: "no_connection" (early return), "sent", "failed"
\* (exception caught and logged) or "raised" (exception reaches the caller)
SendOutcome(sid, message) ==
  LET ws == RegistryLookup(active_connections, sid) IN
  IF ws = NoHandle THEN "no_connection"
  ELSE IF ~Serializable(message)
    THEN (IF CaughtBySend("SerializationError") THEN "failed" ELSE "raised")
  ELSE IF ~SendTextOk(ws)
    THEN (IF CaughtBySend("TransportError") THEN "failed" ELSE "raised")
  ELSE "sent"

\* what send_message leaves on the handles: one write to the looked-up
\* handle when it gets that far, nothing otherwise
OutboxAfterSend(sid, message) ==
  IF SendOutcome(sid, message) = "sent"
    THEN [outbox EXCEPT ![RegistryLookup(active_connections, sid)] = Append(@, message)]
    ELSE outbox

\* mutant: a send that failed drops the entry it was sent under
RegistryAfterSend_prune(reg, sid, message) ==
  IF SendOutcome(sid, message) = "failed" THEN [reg EXCEPT ![sid] = NoHandle] ELSE reg

\* send_message lines 24-39 read the map with get() and never assign to it
\* or delete from it, whatever becomes of the write
RegistryAfterSend(reg, sid, message) == reg

\* ------------------------------------------------------------ ChatService
RECURSIVE Join(_, _)
\* sep.join(lines)
Join(lines, sep) ==
  IF lines = <<>> THEN <<>>
  ELSE IF Len(lines) = 1 THEN lines[1]
  ELSE lines[1] \o <<sep>> \o Join(Tail(lines), sep)

\* mutant: one transcript for all sessions, kept under the default id
AppendUser_shared(store, sid, message) ==
  [store EXCEPT ![DefaultSessionId] = Append(@, <<"User: ">> \o message)]

\* mutant: sessions.get(session_id, []) instead of setdefault, so the
\* first turn of a session is appended to a list the map does not hold
AppendUser_get(store, sid, message) ==
  IF store[sid] = <<>> THEN store
  ELSE [store EXCEPT ![sid] = Append(@, <<"User: ">> \o message)]

\* lines 54-55: history = self.sessions.setdefault(session_id, []);
\* history.append(f"User: {message}")
AppendUser(store, sid, message) ==
  [store EXCEPT ![sid] = Append(@, <<"User: ">> \o message)]

\* mutant: the prompt built from the latest entry alone
BuildPrompt_lastonly(history) == history[Len(history)] \o <<"\nAssistant:">>

\* "\n".join(history) + "\nAssistant:"
BuildPrompt(history) == Join(history, "\n") \o <<"\nAssistant:">>

\* mutant: no except clause around the agent invocation
CaughtByProcess_none(exc) == FALSE

\* line 62: except Exception catches whatever the agent raises
CaughtByProcess(exc) == TRUE

\* output = f"Error: {e}"
ErrorOutput(e) == <<"Error: ">> \o e

\* mutant: the assistant turn written over the last entry
AppendAssistant_rewrite(store, sid, output) ==
  [store EXCEPT ![sid] = [@ EXCEPT ![Len(@)] = <<"Assistant: ">> \o output]]

\* history.append(f"Assistant: {output}")
AppendAssistant(store, sid, output) ==
  [store EXCEPT ![sid] = Append(@, <<"Assistant: ">> \o output)]

\* ----------------------------------------------------------- routing keys
\* mutant: a connection without the parameter gets an id of its own kind
QuerySessionId_nodefault(q) == IF q = Absent THEN "A" ELSE q

\* ws_chat line 97: websocket.query_params.get("session_id", "default")
QuerySessionId(q) == IF q = Absent THEN DefaultSessionId ELSE q

\* ws_chat lines 109-120: process and the reply use user_message.session_id
ReplySessionId(c) == user_message[c].session_id

\* mutant: the reply stamped with the connection's session id
ReplyEnvelopeSessionId_connection(c) == session_id[c]

\* ws_chat line 114: AssistantMessage(session_id=user_message.session_id)
ReplyEnvelopeSessionId(c) == user_message[c].session_id

\* mutant: the session id the rejected payload carries, when it has one
ErrorSessionId_payload(c, raw) ==
  IF raw.session_id \in SessionIds THEN raw.session_id ELSE session_id[c]

\* ws_chat lines 123-128: the error envelope and its routing use session_id
ErrorSessionId(c, raw) == session_id[c]

\* --------------------------------------------------------------- initial
Init ==
  /\ pc = [t \in Tasks |-> "idle"]
  /\ session_id = [c \in Conns |-> Missing]
  /\ peer = [c \in Conns |-> "none"]
  /\ user_message = [t \in Tasks |-> NoMessage]
  /\ prompt = [t \in Tasks |-> <<>>]
  /\ outbox = [c \in Conns |-> <<>>]
  /\ active_connections = [s \in SessionIds |-> NoHandle]
  /\ sessions = [s \in SessionIds |-> <<>>]
  /\ response = [t \in Https |-> NoResponse]
  /\ nread = [c \in Conns |-> 0]
  /\ call = NoCall
  /\ ncalls = 0
  /\ telemetry = NoTelemetry
  /\ patient = [t \in PatientTasks |-> NoPatient]
  /\ acquired = {}
  /\ completed = [s \in SessionIds |-> 0]

\* ------------------------------------------------------ connection set-up
\* the transport hands ws_chat a fresh handle per connection, in order
IsNextHandle(c) ==
  /\ pc[c] = "idle"
  /\ \A i, j \in 1..Len(ConnOrder) : (i < j /\ ConnOrder[j] = c) => pc[ConnOrder[i]] # "idle"

\* ws_chat lines 97-98 with accept succeeding: register, enter the loop
WsConnect(c, q) ==
  /\ IsNextHandle(c)
  /\ session_id' = [session_id EXCEPT ![c] = QuerySessionId(q)]
  /\ peer' = [peer EXCEPT ![c] = "open"]
  /\ active_connections' =
       ConnectRegistry(active_connections, c, QuerySessionId(q), TRUE)
  /\ pc' = [pc EXCEPT ![c] = "reading"]
  /\ UNCHANGED <<user_message, prompt, outbox, sessions, response, nread, call, ncalls>>
  /\ UNCHANGED <<telemetry, patient, acquired, completed>>

\* ws_chat lines 97-98 with accept raising: the exception leaves ws_chat
\* before the registry is written
WsConnectFail(c, q) ==
  /\ IsNextHandle(c)
  /\ session_id' = [session_id EXCEPT ![c] = QuerySessionId(q)]
  /\ peer' = [peer EXCEPT ![c] = "closed"]
  /\ active_connections' =
       ConnectRegistry(active_connections, c, QuerySessionId(q), FALSE)
  /\ pc' = [pc EXCEPT ![c] = "crashed"]
  /\ UNCHANGED <<user_message, prompt, outbox, sessions, response, nread, call, ncalls>>
  /\ UNCHANGED <<telemetry, patient, acquired, completed>>

\* the client goes away; the loop learns of it at its next receive_text
ClientClose(c) ==
  /\ pc[c] \in {"reading", "acquiring", "running"}
  /\ peer[c] = "open"
  /\ peer' = [peer EXCEPT ![c] = "closed"]
  /\ UNCHANGED <<pc, session_id, user_message, prompt, outbox, active_connections,
                 sessions, response, nread, call, ncalls>>
  /\ UNCHANGED <<telemetry, patient, acquired, completed>>

\* ------------------------------------------------------------- the loop
\* requests taken so far: frames read by the loops, POST /chat calls and
\* direct calls
Requests ==
  SumOver(nread, Conns) + Cardinality({t \in Https : pc[t] # "idle"}) + ncalls

\* mutant: frames taken off the socket while a message is in process
CanRead_anytime(c) ==
  /\ pc[c] \in {"reading", "acquiring", "running"}
  /\ peer[c] = "open"
  /\ Requests < MaxRequests

\* line 102: receive_text returns a frame; the loop is at that await only
\* when the iteration before it has run to its end
CanRead(c) ==
  /\ pc[c] = "reading"
  /\ peer[c] = "open"
  /\ Requests < MaxRequests

\* ws_chat awaits send_message (lines 118, 128): the write happens; if the
\* call raised, no except clause of ws_chat would match, the exception would
\* leave ws_chat and the server would close the socket
LoopSend(c, sid, message) ==
  /\ outbox' = OutboxAfterSend(sid, message)
  /\ active_connections' = RegistryAfterSend(active_connections, sid, message)
  /\ call' = [op |-> "send_message", key |-> sid,
              handle |-> RegistryLookup(active_connections, sid),
              envelope |-> message.session_id,
              result |-> IF SendOutcome(sid, message) = "raised"
                           THEN "raised" ELSE "returned"]
  /\ IF SendOutcome(sid, message) = "raised"
       THEN /\ pc' = [pc EXCEPT ![c] = "crashed"]
            /\ peer' = [peer EXCEPT ![c] = "closed"]
       ELSE /\ pc' = [pc EXCEPT ![c] = "reading"]
            /\ UNCHANGED peer

\* lines 102-106 raise JSONDecodeError or ValidationError; lines 122-128
\* answer with an ErrorMessage and the loop reads on
WsReceiveInvalid(c, raw) ==
  /\ CanRead(c)
  /\ CaughtByInnerExcept(Decode(raw))
  /\ nread' = [nread EXCEPT ![c] = @ + 1]
  /\ LoopSend(c, ErrorSessionId(c, raw),
              ErrorMessage(ErrorSessionId(c, raw), InvalidFormatText(raw)))
  /\ UNCHANGED <<session_id, user_message, prompt, sessions, response, ncalls>>
  /\ UNCHANGED <<telemetry, patient, acquired, completed>>

\* lines 102-106 raise an exception the inner except clause does not name
\* (TypeError: the JSON value is no object): the outer clause does not match
\* either, the exception leaves ws_chat and the server closes the socket; the
\* registry entry stays
WsReceiveUncaught(c, raw) ==
  /\ CanRead(c)
  /\ Decode(raw) # "ok"
  /\ ~CaughtByInnerExcept(Decode(raw))
  /\ ~CaughtByOuterExcept(Decode(raw))
  /\ nread' = [nread EXCEPT ![c] = @ + 1]
  /\ pc' = [pc EXCEPT ![c] = "crashed"]
  /\ peer' = [peer EXCEPT ![c] = "closed"]
  /\ UNCHANGED <<session_id, user_message, prompt, outbox, active_connections,
                 sessions, response, call, ncalls>>
  /\ UNCHANGED <<telemetry, patient, acquired, completed>>

\* process lines 54-59: append the user turn, build the prompt, start the
\* scoped acquisition of the agent (first suspension point)
ProcessBegin(t, sid, message) ==
  /\ user_message' = [user_message EXCEPT ![t] = [session_id |-> sid, content |-> message]]
  /\ sessions' = AppendUser(sessions, sid, message)
  /\ prompt' = [prompt EXCEPT ![t] = BuildPrompt(AppendUser(sessions, sid, message)[sid])]
  /\ pc' = [pc EXCEPT ![t] = "acquiring"]

\* lines 102-120: the frame decodes; line 108 lets type "message" enter
\* process, keyed by the session id the frame carries, and passes over any
\* other type without an answer
WsReceiveValid(c, raw) ==
  /\ CanRead(c)
  /\ Decode(raw) = "ok"
  /\ nread' = [nread EXCEPT ![c] = @ + 1]
  /\ IF raw.type = "message"
       THEN ProcessBegin(c, raw.session_id, raw.content)
       ELSE UNCHANGED <<user_message, sessions, prompt, pc>>
  /\ UNCHANGED <<session_id, peer, outbox, active_connections, response, call, ncalls>>
  /\ UNCHANGED <<telemetry, patient, acquired, completed>>

\* one iteration of the loop on the frame raw, whichever way it goes
WsReceive(c, raw) ==
  \/ WsReceiveInvalid(c, raw)
  \/ WsReceiveUncaught(c, raw)
  \/ WsReceiveValid(c, raw)

\* mutant: the loop deregisters its id only while the entry is its own handle
LoopDisconnects_ifowner(c) == active_connections[session_id[c]] = c

\* line 131: the except clause calls disconnect(session_id) whatever handle
\* the entry holds
LoopDisconnects(c) == TRUE

\* lines 130-131: receive_text raises WebSocketDisconnect, the loop
\* deregisters its session id and ends
WsDisconnect(c) ==
  /\ pc[c] = "reading"
  /\ peer[c] = "closed"
  /\ IF CaughtByOuterExcept("WebSocketDisconnect")
       THEN /\ active_connections' =
                 IF LoopDisconnects(c)
                   THEN RegistryDisconnect(active_connections, session_id[c])
                   ELSE active_connections
            /\ pc' = [pc EXCEPT ![c] =
                        IF /\ LoopDisconnects(c)
                           /\ DisconnectOutcome(active_connections, session_id[c]) = "raised"
                          THEN "crashed" ELSE "closed"]
       ELSE /\ pc' = [pc EXCEPT ![c] = "crashed"]
            /\ UNCHANGED active_connections
  /\ UNCHANGED <<session_id, peer, user_message, prompt, outbox, sessions,
                 response, nread, call, ncalls>>
  /\ UNCHANGED <<telemetry, patient, acquired, completed>>

\* POST /chat lines 90-92: the handler calls process with the request's fields
HttpChat(t, sid, message) ==
  /\ t \in Https
  /\ pc[t] = "idle"
  /\ Requests < MaxRequests
  /\ ProcessBegin(t, sid, message)
  /\ UNCHANGED <<session_id, peer, outbox, active_connections, response, nread,
                 call, ncalls>>
  /\ UNCHANGED <<telemetry, patient, acquired, completed>>

\* ------------------------------------------------------------- the agent
\* tasks inside the async with block: the agent resources acquired and not
\* yet released
Held == {t \in Tasks : pc[t] = "running"}

\* mutant: the agent released only at the end of a run that returned
ReleasedOnExit_returnonly(path) == path = "return"

\* line 59, async with: __aexit__ runs on every way out of the block, the
\* return of run and an exception raised by it alike
ReleasedOnExit(path) == TRUE

\* the agents entered and not exited after task t leaves the block by path
AcquiredAfterExit(held, t, path) ==
  IF ReleasedOnExit(path) THEN held \ {t} ELSE held

\* process lines 65-66, then the caller: ws_chat lines 112-120 build the
\* AssistantMessage, send it under user_message.session_id and read on; chat
\* line 93 returns the ChatResponse
ProcessReturn(t, output) ==
  /\ sessions' = AppendAssistant(sessions, user_message[t].session_id, output)
  /\ completed' = [completed EXCEPT ![user_message[t].session_id] = @ + 1]
  /\ user_message' = [user_message EXCEPT ![t] = NoMessage]
  /\ prompt' = [prompt EXCEPT ![t] = <<>>]
  /\ IF t \in Conns
       THEN /\ LoopSend(t, ReplySessionId(t),
                        AssistantMessage(ReplyEnvelopeSessionId(t), output, FALSE))
            /\ UNCHANGED response
       ELSE /\ response' = [response EXCEPT ![t] =
                              [session_id |-> user_message[t].session_id,
                               output |-> output]]
            /\ pc' = [pc EXCEPT ![t] = "done"]
            /\ UNCHANGED <<outbox, peer, call, active_connections>>

\* an exception leaving process: it passes ws_chat's except clauses and ends
\* the loop; POST /chat answers 500
ProcessRaise(t) ==
  /\ user_message' = [user_message EXCEPT ![t] = NoMessage]
  /\ prompt' = [prompt EXCEPT ![t] = <<>>]
  /\ IF t \in Conns
       THEN /\ pc' = [pc EXCEPT ![t] = "crashed"]
            /\ peer' = [peer EXCEPT ![t] = "closed"]
            /\ UNCHANGED response
       ELSE /\ response' = [response EXCEPT ![t] =
                              [session_id |-> Missing, output |-> <<"500">>]]
            /\ pc' = [pc EXCEPT ![t] = "done"]
            /\ UNCHANGED peer
  /\ UNCHANGED <<sessions, outbox, call, completed, active_connections>>

\* lines 58-66 after the agent failed with e: line 62 turns it into output
AgentFailed(t, e) ==
  IF CaughtByProcess(e) THEN ProcessReturn(t, ErrorOutput(e)) ELSE ProcessRaise(t)

\* line 59: chat_agent() or __aenter__ raises
AcquireFail(t, e) ==
  /\ pc[t] = "acquiring"
  /\ AgentFailed(t, e)
  /\ UNCHANGED <<session_id, nread, ncalls>>
  /\ UNCHANGED <<telemetry, patient, acquired>>

\* mutant: one agent shared by all tasks, entered by one task at a time
AgentAvailable_exclusive(t) == Held \ {t} = {}

\* chat_agent() builds a new Agent, model client and MCP server per call:
\* no task waits for another task's agent
AgentAvailable(t) == TRUE

\* line 59: the agent is acquired; line 60 awaits agent.run(prompt)
AcquireOk(t) ==
  /\ pc[t] = "acquiring"
  /\ AgentAvailable(t)
  /\ pc' = [pc EXCEPT ![t] = "running"]
  /\ UNCHANGED <<session_id, peer, user_message, prompt, outbox,
                 active_connections, sessions, response, nread, call, ncalls>>
  /\ acquired' = acquired \cup {t}
  /\ UNCHANGED <<telemetry, patient, completed>>

\* lines 60-61: run returns, the async with releases the agent
AgentReturn(t, out) ==
  /\ pc[t] = "running"
  /\ ProcessReturn(t, out)
  /\ UNCHANGED <<session_id, nread, ncalls>>
  /\ acquired' = AcquiredAfterExit(acquired, t, "return")
  /\ UNCHANGED <<patient, telemetry>>

\* lines 60-63: run raises, the async with releases the agent
AgentRaise(t, e) ==
  /\ pc[t] = "running"
  /\ AgentFailed(t, e)
  /\ UNCHANGED <<session_id, nread, ncalls>>
  /\ acquired' = AcquiredAfterExit(acquired, t, "raise")
  /\ UNCHANGED <<patient, telemetry>>

\* ------------------------------------------------------------------ next
Next ==
  \/ \E c \in Conns, q \in QueryParams : WsConnect(c, q)
  \/ \E c \in Conns, q \in QueryParams : WsConnectFail(c, q)
  \/ \E c \in Conns : ClientClose(c)
  \/ \E c \in Conns, raw \in Frames : WsReceiveInvalid(c, raw)
  \/ \E c \in Conns, raw \in Frames : WsReceiveUncaught(c, raw)
  \/ \E c \in Conns, raw \in Frames : WsReceiveValid(c, raw)
  \/ \E c \in Conns : WsDisconnect(c)
  \/ \E t \in Https, sid \in SessionIds, m \in Contents : HttpChat(t, sid, m)
  \/ \E t \in Tasks, e \in AgentErrors : AcquireFail(t, e)
  \/ \E t \in Tasks : AcquireOk(t)
  \/ \E t \in Tasks, out \in AgentOutputs : AgentReturn(t, out)
  \/ \E t \in Tasks, e \in AgentErrors : AgentRaise(t, e)

Spec == Init /\ [][Next]_vars

TypeOK ==
  /\ pc \in [Tasks -> {"idle", "reading", "acquiring", "running", "closed", "crashed", "done"}]
  /\ active_connections \in [SessionIds -> Conns \cup {NoHandle}]

\* ------------------------------------------- the registry called directly
\* Callers other than ws_chat (the telemetry emitter, the unit tests) call
\* the ConnectionManager's methods with arguments of their own choosing.
AppUntouched ==
  UNCHANGED <<pc, session_id, user_message, prompt, sessions, response, nread,
              telemetry, patient, acquired, completed>>

\* envelopes a caller may hand to send_message
Envelopes ==
  {AssistantMessage("A", <<"Test">>, FALSE),
   ErrorMessage(DefaultSessionId, <<"Validation failed">>),
   ToolCallEvent("A", "call-1", "tool", "{}"),
   ToolCallEvent("A", "call-1", "tool", "unserializable")}

\* connect lines 15-17, accept succeeding
MgrConnect(ws, sid) ==
  /\ ncalls < MaxCalls
  /\ ncalls' = ncalls + 1
  /\ peer' = [peer EXCEPT ![ws] = "open"]
  /\ active_connections' = ConnectRegistry(active_connections, ws, sid, TRUE)
  /\ call' = [op |-> "connect", key |-> sid, handle |-> ws, envelope |-> Missing,
              result |-> "returned"]
  /\ UNCHANGED outbox
  /\ AppUntouched

\* connect line 15: accept raises, line 16 is not reached
MgrConnectFail(ws, sid) ==
  /\ ncalls < MaxCalls
  /\ ncalls' = ncalls + 1
  /\ active_connections' = ConnectRegistry(active_connections, ws, sid, FALSE)
  /\ call' = [op |-> "connect", key |-> sid, handle |-> ws, envelope |-> Missing,
              result |-> "raised"]
  /\ UNCHANGED <<peer, outbox>>
  /\ AppUntouched

\* disconnect lines 19-22
MgrDisconnect(sid) ==
  /\ ncalls < MaxCalls
  /\ ncalls' = ncalls + 1
  /\ active_connections' = RegistryDisconnect(active_connections, sid)
  /\ call' = [op |-> "disconnect", key |-> sid,
              handle |-> RegistryLookup(active_connections, sid),
              envelope |-> Missing,
              result |-> DisconnectOutcome(active_connections, sid)]
  /\ UNCHANGED <<peer, outbox>>
  /\ AppUntouched

\* send_message lines 24-39
MgrSend(sid, message) ==
  /\ ncalls < MaxCalls
  /\ ncalls' = ncalls + 1
  /\ outbox' = OutboxAfterSend(sid, message)
  /\ call' = [op |-> "send_message", key |-> sid,
              handle |-> RegistryLookup(active_connections, sid),
              envelope |-> message.session_id,
              result |-> IF SendOutcome(sid, message) = "raised"
                           THEN "raised" ELSE "returned"]
  /\ active_connections' = RegistryAfterSend(active_connections, sid, message)
  /\ UNCHANGED peer
  /\ AppUntouched

\* ----------------------------------------------------- TelemetryEmitter
\* arguments callers pass to the helpers: a dict, a dict holding a value JSON
\* cannot express, or no dict at all; a result string or None; durations;
\* event types inside and outside Literal["openai_call", "openai_response"]
ToolArguments == {"{}", "unserializable", "not_a_dict"}
ToolResults == {"42", Missing}
Durations == {0, -1}
OptionalDurations == {<<>>, <<150>>}
EventTypes == {"openai_call", "openai_response", "bogus"}

\* pydantic validation of the three events
ToolCallEventValid(arguments) == arguments # "not_a_dict"
ToolResultEventValid(result) == result # Missing
OpenAIEventValid(event_type) == event_type \in {"openai_call", "openai_response"}

\* mutant: the helpers without their try/except
CaughtByEmit_none(exc) == FALSE

\* lines 32, 57, 85: except Exception catches whatever the try block raises
CaughtByEmit(exc) == TRUE

\* mutant: a helper that raises when its event was not delivered
EmitOutcome_delivered(valid, sid, event, send_raises) ==
  IF valid /\ ~send_raises /\ SendOutcome(sid, event) = "sent"
    THEN "returned" ELSE "raised"

\* one helper call: the event is built (valid or not) and handed to the
\* manager's send_message under the caller's session id; send_raises is a
\* manager whose send_message raises on every call
EmitOutcome(valid, sid, event, send_raises) ==
  IF ~valid
    THEN (IF CaughtByEmit("ValidationError") THEN "returned" ELSE "raised")
  ELSE IF send_raises \/ SendOutcome(sid, event) = "raised"
    THEN (IF CaughtByEmit("Exception") THEN "returned" ELSE "raised")
  ELSE "returned"

\* mutant: a helper that sends its event a second time
EmitSends_retry(valid) == IF valid THEN 2 ELSE 0

\* how often a helper awaits send_message: once, after the event is built
\* (lines 35, 60, 88); an event that fails validation raises before the call
EmitSends(valid) == IF valid THEN 1 ELSE 0

\* the handles after a helper's n awaited calls of send_message, each of
\* which ends before the next begins
OutboxAfterEmit(n, sid, event) ==
  IF n = 0 \/ SendOutcome(sid, event) # "sent" THEN outbox
  ELSE [outbox EXCEPT ![RegistryLookup(active_connections, sid)] =
          @ \o [i \in 1..n |-> event]]

Emit(op, valid, sid, event, send_raises) ==
  /\ ncalls < MaxCalls
  /\ ncalls' = ncalls + 1
  /\ outbox' = IF send_raises THEN outbox
                ELSE OutboxAfterEmit(EmitSends(valid), sid, event)
  /\ call' = [op |-> op, key |-> sid,
              handle |-> IF valid /\ ~send_raises
                           THEN RegistryLookup(active_connections, sid)
                           ELSE NoHandle,
              envelope |-> IF valid THEN event.session_id ELSE Missing,
              result |-> EmitOutcome(valid, sid, event, send_raises)]
  /\ active_connections' = IF valid /\ ~send_raises
                             THEN RegistryAfterSend(active_connections, sid, event)
                             ELSE active_connections
  /\ UNCHANGED peer
  /\ AppUntouched

\* emit_tool_call lines 15-36
EmitToolCall(sid, arguments, send_raises) ==
  Emit("emit_tool_call", ToolCallEventValid(arguments), sid,
       ToolCallEvent(sid, "call-1", "tool", arguments), send_raises)

\* emit_tool_result lines 38-61
EmitToolResult(sid, result, duration_ms, send_raises) ==
  Emit("emit_tool_result", ToolResultEventValid(result), sid,
       ToolResultEvent(sid, "call-1", "tool", result, duration_ms), send_raises)

\* emit_openai_call lines 63-89
EmitOpenAICall(sid, event_type, duration_ms, send_raises) ==
  Emit("emit_openai_call", OpenAIEventValid(event_type), sid,
       OpenAIEvent(event_type, sid, "gpt", duration_ms), send_raises)

\* the peer of a handle goes away
PeerClose(ws) ==
  /\ peer[ws] = "open"
  /\ peer' = [peer EXCEPT ![ws] = "closed"]
  /\ UNCHANGED <<active_connections, outbox, call, ncalls>>
  /\ AppUntouched

NextManager ==
  \/ \E ws \in Conns, sid \in SessionIds : MgrConnect(ws, sid)
  \/ \E ws \in Conns, sid \in SessionIds : MgrConnectFail(ws, sid)
  \/ \E sid \in SessionIds : MgrDisconnect(sid)
  \/ \E sid \in SessionIds, m \in Envelopes : MgrSend(sid, m)
  \/ \E ws \in Conns : PeerClose(ws)
  \/ \E sid \in SessionIds, a \in ToolArguments, f \in BOOLEAN :
       EmitToolCall(sid, a, f)
  \/ \E sid \in SessionIds, r \in ToolResults, d \in Durations, f \in BOOLEAN :
       EmitToolResult(sid, r, d, f)
  \/ \E sid \in SessionIds, ty \in EventTypes, d \in OptionalDurations, f \in BOOLEAN :
       EmitOpenAICall(sid, ty, d, f)

SpecManager == Init /\ [][NextManager]_vars

\* ------------------------------------------------------ the trace query
\* spans as the Jaeger Query API returns them: ids, an operation name (a
\* text, as tokens) and tags, well-formed or with a tag lacking its "key"
OperationNames == {<<"openai.", "chat.completion">>, <<"internal.function">>}
TraceIds == {"t1", "t2"}
\* JSON null / Python None in a span
Null == "null"

\* a tag of a Jaeger span; NoKeyTag is a tag object without "key"
Tag(k, v) == [key |-> k, value |-> v]
NoKeyTag == Tag(Missing, "x")

SpanBodies ==
  [traceID : TraceIds, operationName : OperationNames, tags : {<<>>, <<NoKeyTag>>}]

\* the spans of one trace, with span ids counted from first
WithSpanIds(bodies, first) ==
  [i \in 1..Len(bodies) |->
     [spanID |-> first + i - 1, traceID |-> bodies[i].traceID,
      operationName |-> bodies[i].operationName, startTime |-> 1700,
      duration |-> 1000, references |-> <<>>, tags |-> bodies[i].tags]]

RECURSIVE SeqsUpTo(_, _)
\* the lists of at most n elements of S
SeqsUpTo(S, n) ==
  IF n = 0 THEN {<<>>}
  ELSE LET shorter == SeqsUpTo(S, n - 1) IN
       shorter \cup {Append(q, x) : q \in {r \in shorter : Len(r) = n - 1}, x \in S}

\* response.json()["data"]: a list of traces, each a list of spans
JaegerData ==
  {<<>>} \cup {<<WithSpanIds(tr, 1)>> : tr \in SeqsUpTo(SpanBodies, MaxSpans)}
         \cup {<<WithSpanIds(<<x>>, 1), WithSpanIds(<<y>>, 2)>> :
                 x \in SpanBodies, y \in SpanBodies}

\* what the HTTP exchange with Jaeger comes to: a timeout, an error status
\* (raise_for_status), a body that is no JSON (response.json() raises
\* ValueError), or a body with data
BackendReplies ==
  {[status |-> st, data |-> <<>>] : st \in {"timeout", "http_error", "bad_json"}}
  \cup {[status |-> "ok", data |-> d] : d \in JaegerData}

\* _is_relevant_span: prefix, substring and equality tests on operationName
IsRelevantSpan(jaeger_span) ==
  LET name == jaeger_span.operationName IN
  \/ Head(name) \in {"openai.", "mcp.", "chat ", "agent "}
  \/ \E i \in 1..Len(name) : name[i] \in {"OpenAI", "MCP", "Aidbox", "gpt"}
  \/ name \in {<<"chat_session">>, <<"running tool">>, <<"running tools">>}

\* the aliases and names of the fields of SpanAttributes; keys outside them
\* are ignored by the model's validation
AttributeKeys ==
  {"openai.prompt", "openai.completion", "openai.model", "openai.token_count",
   "mcp.query", "mcp.resource_type", "mcp.response", "session_id"}

\* the positions in a list of dicts whose member name has the value v
Positions(list, v, member) == {i \in 1..Len(list) : list[i][member] = v}

\* mutant: the search goes on after a match, the last one stays
First_nobreak(S) == CHOOSE i \in S : \A j \in S : j <= i

\* the first of a non-empty set of positions: the break of line 147, the
\* next() of lines 157 and 160
First(S) == CHOOSE i \in S : \A j \in S : i <= j

\* the last of a non-empty set of positions
Last(S) == CHOOSE i \in S : \A j \in S : j <= i

\* _convert_jaeger_span raises on a tag without "key" (line 150) and on an
\* attribute value SpanAttributes rejects (line 152: openai.token_count is
\* Optional[int])
ConvertRaises(jaeger_span) ==
  \E i \in 1..Len(jaeger_span.tags) :
    \/ jaeger_span.tags[i].key = Missing
    \/ jaeger_span.tags[i] = Tag("openai.token_count", "many")

\* _convert_jaeger_span lines 135-175: the SpanData of a span
ConvertJaegerSpan(jaeger_span) ==
  LET references == jaeger_span.references
      tags == jaeger_span.tags
      child_of == Positions(references, "CHILD_OF", "refType")
      status_tags == Positions(tags, "otel.status_code", "key")
      error_tags == Positions(tags, "error.message", "key")
      keys == {tags[i].key : i \in 1..Len(tags)} \cap AttributeKeys
      status == IF status_tags # {} /\ tags[First(status_tags)].value = "ERROR"
                  THEN "ERROR" ELSE "OK"
  IN
  [span_id |-> jaeger_span.spanID, trace_id |-> jaeger_span.traceID,
   parent_span_id |-> IF child_of = {} THEN Null
                      ELSE references[First(child_of)].spanID,
   operation_name |-> jaeger_span.operationName,
   start_time |-> jaeger_span.startTime,
   end_time |-> jaeger_span.startTime + jaeger_span.duration,
   duration |-> jaeger_span.duration,
   attributes |-> [k \in keys |-> tags[Last(Positions(tags, k, "key"))].value],
   status |-> status,
   error_message |-> IF status = "ERROR" /\ error_tags # {}
                       THEN tags[First(error_tags)].value ELSE Null]

\* mutant: no try block around the conversion of a span
CaughtByParse_none(exc) == FALSE

\* _parse_jaeger_response line 87: except Exception, around the conversion
\* of one span
CaughtByParse(exc) == TRUE

RECURSIVE ParseSpans(_)
\* the inner loop of _parse_jaeger_response over one trace's spans
ParseSpans(jaeger_spans) ==
  IF jaeger_spans = <<>> THEN <<>>
  ELSE LET x == Head(jaeger_spans) IN
       (IF IsRelevantSpan(x) /\ ~ConvertRaises(x)
          THEN <<ConvertJaegerSpan(x)>> ELSE <<>>)
       \o ParseSpans(Tail(jaeger_spans))

RECURSIVE ParseJaegerResponse(_)
\* _parse_jaeger_response: the outer loop over the traces
ParseJaegerResponse(jaeger_traces) ==
  IF jaeger_traces = <<>> THEN <<>>
  ELSE ParseSpans(Head(jaeger_traces)) \o ParseJaegerResponse(Tail(jaeger_traces))

\* an exception leaves _parse_jaeger_response: the conversion of a relevant
\* span raised and the except clause of line 87 did not take it
ParseRaises(jaeger_traces) ==
  \E t \in 1..Len(jaeger_traces) : \E i \in 1..Len(jaeger_traces[t]) :
    /\ IsRelevantSpan(jaeger_traces[t][i])
    /\ ConvertRaises(jaeger_traces[t][i])
    /\ ~CaughtByParse("KeyError")

\* the exception lines 30-40 raise on a reply
QueryException(reply) ==
  CASE reply.status = "timeout" -> "TimeoutException"
    [] reply.status = "http_error" -> "HTTPStatusError"
    [] reply.status = "bad_json" -> "ValueError"
    [] reply.status = "ok" /\ ParseRaises(reply.data) -> "KeyError"
    [] OTHER -> "none"

\* the classes an exception is an instance of
ClassesOf(exc) ==
  CASE exc = "TimeoutException" -> {"TimeoutException", "HTTPError", "Exception"}
    [] exc = "HTTPStatusError" -> {"HTTPStatusError", "HTTPError", "Exception"}
    [] OTHER -> {exc, "Exception"}

\* mutant: the two httpx clauses only
CaughtByQuery_httponly(exc) == ClassesOf(exc) \cap {"TimeoutException", "HTTPError"} # {}

\* the except clauses of query_traces_by_session: lines 49, 55, 60
CaughtByQuery(exc) ==
  ClassesOf(exc) \cap {"TimeoutException", "HTTPError", "Exception"} # {}

\* query_traces_by_session on a reply: the spans, [] after a caught
\* exception, or the exception
QueryTraces(reply) ==
  IF QueryException(reply) = "none"
    THEN [result |-> "returned", spans |-> ParseJaegerResponse(reply.data)]
  ELSE IF CaughtByQuery(QueryException(reply))
    THEN [result |-> "returned", spans |-> <<>>]
  ELSE [result |-> "raised", spans |-> <<>>]

\* get_telemetry lines 179-180: len(set(span.trace_id for span in spans))
TraceCount(spans) == Cardinality({spans[i].trace_id : i \in 1..Len(spans)})

ChatUntouched ==
  UNCHANGED <<pc, session_id, peer, user_message, prompt, outbox,
              active_connections, sessions, response, nread, call, patient,
              acquired, completed>>

\* query_traces_by_session called on its own
QueryTracesBySession(sid, reply) ==
  /\ ncalls < MaxCalls
  /\ ncalls' = ncalls + 1
  /\ telemetry' =
       [op |-> "query", session_id |-> sid, backend |-> reply.status,
        patched |-> FALSE, query |-> QueryTraces(reply).result, status |-> "none",
        spans |-> QueryTraces(reply).spans, trace_count |-> 0, input |-> <<>>]
  /\ ChatUntouched

\* GET /telemetry/{session_id}, lines 164-202; patched is a query function
\* replaced by one that raises
GetTelemetry(sid, reply, patched) ==
  /\ ncalls < MaxCalls
  /\ ncalls' = ncalls + 1
  /\ LET q == IF patched THEN [result |-> "raised", spans |-> <<>>]
                         ELSE QueryTraces(reply)
     IN telemetry' =
          IF q.result = "raised"
            THEN [op |-> "get", session_id |-> sid, backend |-> reply.status,
                  patched |-> patched, query |-> "raised", status |-> "500",
                  spans |-> <<>>, trace_count |-> 0, input |-> <<>>]
            ELSE [op |-> "get", session_id |-> sid, backend |-> reply.status,
                  patched |-> patched, query |-> "returned", status |-> "200",
                  spans |-> q.spans, trace_count |-> TraceCount(q.spans),
                  input |-> <<>>]
  /\ ChatUntouched

NextTelemetry ==
  \/ \E sid \in SessionIds, reply \in BackendReplies : QueryTracesBySession(sid, reply)
  \/ \E sid \in SessionIds, reply \in BackendReplies, patched \in BOOLEAN :
       GetTelemetry(sid, reply, patched)

SpecTelemetry == Init /\ [][NextTelemetry]_vars

\* ------------------------------------------- the parsing functions alone
\* references of a span: none, a parent, a link of another kind, a link
\* before the parent, two parents
RefLists ==
  {<<>>,
   <<[refType |-> "CHILD_OF", spanID |-> "p1"]>>,
   <<[refType |-> "FOLLOWS_FROM", spanID |-> "p1"]>>,
   <<[refType |-> "FOLLOWS_FROM", spanID |-> "p1"],
     [refType |-> "CHILD_OF", spanID |-> "p2"]>>,
   <<[refType |-> "CHILD_OF", spanID |-> "p1"],
     [refType |-> "CHILD_OF", spanID |-> "p2"]>>}

\* tags of a span: status and error message present, absent, alone and in
\* either order; attributes of SpanAttributes, valid and not; a tag
\* without a key
TagLists ==
  {<<>>,
   <<Tag("otel.status_code", "ERROR"), Tag("error.message", "Connection failed")>>,
   <<Tag("error.message", "Connection failed"), Tag("otel.status_code", "ERROR")>>,
   <<Tag("otel.status_code", "ERROR")>>,
   <<Tag("otel.status_code", "OK"), Tag("error.message", "Connection failed")>>,
   <<Tag("otel.status_code", "UNSET")>>,
   <<Tag("error.message", "Connection failed")>>,
   <<Tag("openai.model", "gpt-4o"), Tag("openai.token_count", "150")>>,
   <<Tag("openai.token_count", "many")>>,
   <<NoKeyTag>>}

\* the spans _convert_jaeger_span is called on
ConvertInputs ==
  [spanID : {"s1"}, traceID : {"t1"}, operationName : {<<"mcp.", "query">>},
   startTime : {0, 1700}, duration : {0, 1000}, references : RefLists,
   tags : TagLists]

\* _parse_jaeger_response called on its own, lines 67-97
ParseResponse(jaeger_traces) ==
  /\ ncalls < MaxCalls
  /\ ncalls' = ncalls + 1
  /\ telemetry' =
       [op |-> "parse", session_id |-> Missing, backend |-> "ok",
        patched |-> FALSE,
        query |-> IF ParseRaises(jaeger_traces) THEN "raised" ELSE "returned",
        status |-> "none",
        spans |-> IF ParseRaises(jaeger_traces) THEN <<>>
                  ELSE ParseJaegerResponse(jaeger_traces),
        trace_count |-> 0, input |-> jaeger_traces]
  /\ ChatUntouched

\* _convert_jaeger_span called on its own, lines 126-175
ConvertSpan(jaeger_span) ==
  /\ ncalls < MaxCalls
  /\ ncalls' = ncalls + 1
  /\ telemetry' =
       [op |-> "convert", session_id |-> Missing, backend |-> "ok",
        patched |-> FALSE,
        query |-> IF ConvertRaises(jaeger_span) THEN "raised" ELSE "returned",
        status |-> "none",
        spans |-> IF ConvertRaises(jaeger_span) THEN <<>>
                  ELSE <<ConvertJaegerSpan(jaeger_span)>>,
        trace_count |-> 0, input |-> <<jaeger_span>>]
  /\ ChatUntouched

NextJaeger ==
  \/ \E data \in JaegerData : ParseResponse(data)
  \/ \E span \in ConvertInputs : ConvertSpan(span)

SpecJaeger == Init /\ [][NextJaeger]_vars

\* --------------------------------------------------------- POST /patient
\* mutant: the not-found test inside the try block
PatientTryCovers_all(stmt) == TRUE

\* the statements of patient_history inside its try block (lines 143-146):
\* entering the agent, its run, reading result.output; the not-found test
\* of line 154 comes after the except clause
PatientTryCovers(stmt) == stmt \in {"acquire", "run", "output"}

\* line 154, not history: None is falsy, a PatientClinicalHistory is not
Falsy(history) == history = NoHistory

\* how the handler answers an exception raised at stmt: the except clause
\* of line 147 turns what the try block raises into 500; an HTTPException
\* raised outside it goes to the client as it is
PatientStatusOnRaise(stmt, status) ==
  IF PatientTryCovers(stmt) THEN "500" ELSE status

OnlyPatient ==
  UNCHANGED <<pc, session_id, peer, user_message, prompt, outbox,
              active_connections, sessions, response, nread, call, ncalls,
              telemetry, acquired, completed>>

PatientDone(t, status, body) ==
  /\ patient' = [patient EXCEPT ![t] =
                   [pc |-> "done", patient_id |-> patient[t].patient_id,
                    status |-> status, body |-> body]]
  /\ OnlyPatient

\* lines 134-144: the request arrives, the prompt is built, the handler
\* awaits the agent's __aenter__
PatientRequest(t, pid) ==
  /\ patient[t].pc = "idle"
  /\ patient' = [patient EXCEPT ![t] =
                   [pc |-> "acquiring", patient_id |-> pid, status |-> "none",
                    body |-> NoHistory]]
  /\ OnlyPatient

\* line 144: patient_history_agent() or __aenter__ raises
PatientAcquireFail(t, e) ==
  /\ patient[t].pc = "acquiring"
  /\ PatientDone(t, PatientStatusOnRaise("acquire", "500"), NoHistory)

\* line 144: the agent is entered; line 145 awaits agent.run(prompt)
PatientAcquireOk(t) ==
  /\ patient[t].pc = "acquiring"
  /\ patient' = [patient EXCEPT ![t].pc = "running"]
  /\ OnlyPatient

\* line 145: run raises
PatientAgentRaise(t, e) ==
  /\ patient[t].pc = "running"
  /\ PatientDone(t, PatientStatusOnRaise("run", "500"), NoHistory)

\* lines 145-162: run returns; an empty result is answered 404, anything
\* else is returned as the body
PatientAgentReturn(t, history) ==
  /\ patient[t].pc = "running"
  /\ IF Falsy(history)
       THEN PatientDone(t, PatientStatusOnRaise("not_found", "404"), NoHistory)
       ELSE PatientDone(t, "200", history)

NextPatient ==
  \/ \E t \in PatientTasks, pid \in PatientIds : PatientRequest(t, pid)
  \/ \E t \in PatientTasks, e \in AgentErrors : PatientAcquireFail(t, e)
  \/ \E t \in PatientTasks : PatientAcquireOk(t)
  \/ \E t \in PatientTasks, e \in AgentErrors : PatientAgentRaise(t, e)
  \/ \E t \in PatientTasks, h \in Histories \cup {NoHistory} : PatientAgentReturn(t, h)

SpecPatient == Init /\ [][NextPatient]_vars

\* ------------------------------------- the loops and the emitter together
\* The application with a telemetry emitter on its registry: the helpers are
\* called between the steps of the connection loops.
NextSenders ==
  \/ Next
  \/ /\ Requests < MaxRequests
     /\ \/ \E sid \in SessionIds, a \in ToolArguments : EmitToolCall(sid, a, FALSE)
        \/ \E sid \in SessionIds, r \in ToolResults : EmitToolResult(sid, r, 0, FALSE)
        \/ \E sid \in SessionIds, ty \in EventTypes :
             EmitOpenAICall(sid, ty, <<>>, FALSE)

SpecSenders == Init /\ [][NextSenders]_vars

\* ============================================================== properties
\* the frames a step adds to the handle h
Written(h) == SubSeq(outbox'[h], Len(outbox[h]) + 1, Len(outbox'[h]))

\* the handles a step writes to
WrittenTo == {h \in Conns : outbox'[h] # outbox[h]}

\* the connection c is open and is the one the registry holds for its id
Registered(c) ==
  /\ pc[c] \in {"reading", "acquiring", "running"}
  /\ peer[c] = "open"
  /\ active_connections[session_id[c]] = c

\* the loop of connection a takes the step (reads a frame, or finishes one)
LoopStep(a) == nread'[a] # nread[a] \/ pc'[a] # pc[a]

\* C1: session isolation. With a and b open under different session ids, each
\* registered under its own, no step of a's loop (whatever frame it reads)
\* writes a frame to b's handle; and a frame sent under one session id is
\* never written to a handle registered under another.
C1_SessionIsolation ==
  [][\A a, b \in Conns :
       (a # b /\ Registered(a) /\ Registered(b)
          /\ session_id[a] # session_id[b] /\ LoopStep(a))
       => outbox'[b] = outbox[b]]_vars

\* C2: every frame read on an open connection is answered on that same
\* connection with an AssistantMessage or an ErrorMessage by the time the
\* loop has dealt with it, and no agent fault ends the loop.
FrameDone(c) ==
  \/ /\ pc[c] = "reading"
     /\ nread'[c] = nread[c] + 1
     /\ pc'[c] \notin {"acquiring", "running"}
  \/ /\ pc[c] \in {"acquiring", "running"}
     /\ pc'[c] \notin {"acquiring", "running"}

C2_EveryFrameAnswered ==
  [][\A c \in Conns :
       (FrameDone(c) /\ peer[c] = "open")
       => /\ pc'[c] = "reading"
          /\ \E i \in 1..Len(Written(c)) :
               Written(c)[i].type \in {"assistant", "error"}]_vars

\* C3: a frame that is no valid inbound envelope (not JSON, JSON of another
\* shape, a JSON value that is no object) is recovered from locally: the
\* loop stays in reading, the connection stays open, the registry is left
\* alone and an ErrorMessage goes to the originating connection.
NotAnEnvelope(raw) == Decode(raw) # "ok"

C3_MalformedRecovered ==
  [][\A c \in Conns, raw \in Frames :
       (WsReceive(c, raw) /\ NotAnEnvelope(raw))
       => /\ pc'[c] = "reading"
          /\ peer'[c] = "open"
          /\ active_connections' = active_connections
          /\ (active_connections[session_id[c]] = c
                => /\ Len(Written(c)) = 1
                   /\ Written(c)[1].type = "error")]_vars

\* no task enters the agent in this step
AgentNotInvoked == \A t \in Tasks : pc'[t] = "acquiring" => pc[t] = "acquiring"

\* C4 as stated: a frame that is not JSON, read on any open connection,
\* yields exactly one outbound frame, of type "error", with the connection's
\* session id and a text starting "Invalid message format"; no transcript
\* changes and the agent is not invoked.
C4_ExactlyOneErrorFrame ==
  [][\A c \in Conns :
       WsReceive(c, GarbageFrame)
       => /\ Cardinality(WrittenTo) = 1
          /\ \A h \in WrittenTo :
               /\ Len(Written(h)) = 1
               /\ Written(h)[1].type = "error"
               /\ Written(h)[1].session_id = session_id[c]
               /\ Head(Written(h)[1].error) = "Invalid message format: "
          /\ sessions' = sessions
          /\ AgentNotInvoked]_vars

\* C4 amended: the one error frame is written to the handle the registry
\* holds for the connection's session id, when that handle's transport is
\* open (as it is when the registry holds the reading connection itself);
\* otherwise no frame is written. No transcript changes, no agent call.
C4_OneErrorFrameViaRegistry ==
  [][\A c \in Conns :
       WsReceive(c, GarbageFrame)
       => LET h == active_connections[session_id[c]] IN
          /\ IF h # NoHandle /\ peer[h] = "open"
               THEN /\ WrittenTo = {h}
                    /\ Len(Written(h)) = 1
                    /\ Written(h)[1].type = "error"
                    /\ Written(h)[1].session_id = session_id[c]
                    /\ Head(Written(h)[1].error) = "Invalid message format: "
               ELSE WrittenTo = {}
          /\ (h = c => WrittenTo = {c})
          /\ pc'[c] = "reading"
          /\ sessions' = sessions
          /\ AgentNotInvoked]_vars

C4_Witness ==
  \E c \in Conns :
    /\ pc[c] = "reading"
    /\ nread[c] = 1
    /\ outbox[c] = <<ErrorMessage(session_id[c],
                       <<"Invalid message format: ", "Expecting value">>)>>
    /\ \A s \in SessionIds : sessions[s] = <<>>
    /\ \A t \in Tasks : pc[t] \notin {"acquiring", "running"}

\* C5: the ErrorMessage for a frame that fails decoding or validation carries
\* the session id the connection was opened with and is written only to the
\* handle registered under that id, whatever session id the payload names.
C5_ErrorUsesConnectionId ==
  [][\A c \in Conns, raw \in Frames :
       (WsReceive(c, raw) /\ Decode(raw) \in {"JSONDecodeError", "ValidationError"})
       => \A h \in WrittenTo :
            /\ h = active_connections[session_id[c]]
            /\ \A i \in 1..Len(Written(h)) :
                 /\ Written(h)[i].type = "error"
                 /\ Written(h)[i].session_id = session_id[c]]_vars

\* a rejected payload named the session of another live connection, and the
\* error frame still went to its own connection under its own id
C5_Witness ==
  \E c, d \in Conns :
    /\ c # d
    /\ Len(outbox[c]) = 1
    /\ outbox[c][1].type = "error"
    /\ outbox[c][1].session_id = session_id[c]
    /\ Len(outbox[c][1].error) = 4
    /\ outbox[c][1].error[4] \in SessionIds \ {session_id[c]}
    /\ active_connections[outbox[c][1].error[4]] = d
    /\ peer[d] = "open"
    /\ outbox[d] = <<>>

\* a JSON object whose type is not "message"
WrongType(raw) == raw.shape = "object" /\ raw.type # "message"

\* C6 as stated: a JSON object frame whose type is not "message" yields an
\* outbound error envelope carrying the connection's session id.
C6_WrongTypeYieldsError ==
  [][\A c \in Conns, raw \in Frames :
       (WsReceive(c, raw) /\ WrongType(raw))
       => \E h \in Conns :
            /\ Len(Written(h)) = 1
            /\ Written(h)[1].type = "error"
            /\ Written(h)[1].session_id = session_id[c]]_vars

\* C6 amended: the error envelope for such a frame carries the connection's
\* session id and goes out on the handle the registry holds for that id,
\* when that handle's transport is open (as it is when the registry holds
\* the reading connection itself); otherwise nothing goes out.
C6_WrongTypeErrorViaRegistry ==
  [][\A c \in Conns, raw \in Frames :
       (WsReceive(c, raw) /\ WrongType(raw))
       => LET h == active_connections[session_id[c]] IN
          /\ IF h # NoHandle /\ peer[h] = "open"
               THEN /\ WrittenTo = {h}
                    /\ Len(Written(h)) = 1
                    /\ Written(h)[1].type = "error"
                    /\ Written(h)[1].session_id = session_id[c]
               ELSE WrittenTo = {}
          /\ (h = c => WrittenTo = {c})
          /\ pc'[c] = "reading"]_vars

C6_Witness ==
  \E c \in Conns :
    /\ pc[c] = "reading"
    /\ Len(outbox[c]) = 1
    /\ outbox[c][1].type = "error"
    /\ outbox[c][1].session_id = session_id[c]
    /\ Len(outbox[c][1].error) = 4
    /\ outbox[c][1].error[3] = "invalid_type"

\* the agent fails task t with e, at acquisition or in run
AgentFault(t, e) == AcquireFail(t, e) \/ AgentRaise(t, e)

\* C7: an agent failure is folded into content: process does not raise,
\* returns "Error: " + the exception text and appends "Assistant: Error: ..."
\* to the transcript; the WebSocket client gets an AssistantMessage with that
\* content and its loop reads on; POST /chat answers {session_id, output}.
C7_AgentFailureFolded ==
  [][\A t \in Tasks, e \in AgentErrors :
       AgentFault(t, e)
       => /\ sessions' = AppendAssistant(sessions, user_message[t].session_id,
                                         ErrorOutput(e))
          /\ (t \in Https =>
                /\ pc'[t] = "done"
                /\ response'[t] = [session_id |-> user_message[t].session_id,
                                   output |-> ErrorOutput(e)])
          /\ (t \in Conns =>
                /\ pc'[t] = "reading"
                /\ (peer[t] = "open" =>
                      /\ Len(Written(t)) = 1
                      /\ Written(t)[1].type = "assistant"
                      /\ Written(t)[1].content = ErrorOutput(e)
                      /\ Written(t)[1].streaming = FALSE))]_vars

\* C8: the session id of the connection's query parameter is the only key of
\* the connection's work: a valid message read on a connection opened with
\* id S is appended to S's transcript, the assistant turn too, and the reply
\* is looked up under S.
C8_ConnectionIdIsSoleKey ==
  [][\A c \in Conns :
       /\ \A raw \in Frames :
            (WsReceive(c, raw) /\ Decode(raw) = "ok")
            => sessions' = AppendUser(sessions, session_id[c], raw.content)
       /\ (pc[c] \in {"acquiring", "running"} /\ pc'[c] = "reading")
            => /\ \A s \in SessionIds \ {session_id[c]} : sessions'[s] = sessions[s]
               /\ WrittenTo \subseteq {active_connections[session_id[c]]}]_vars

\* C9: send_message never raises to its caller. With no registry entry for
\* the session id it returns without writing to any handle; with an entry it
\* writes the envelope once, to that handle and no other; an exception from
\* serialization or from the transport write is caught and the call returns.
C9_SendNeverRaises ==
  [][\A sid \in SessionIds, m \in Envelopes :
       MgrSend(sid, m)
       => LET h == active_connections[sid] IN
          /\ call'.result = "returned"
          /\ (h = NoHandle => WrittenTo = {})
          /\ (h # NoHandle =>
                /\ WrittenTo \subseteq {h}
                /\ Len(Written(h)) <= 1
                /\ ((Serializable(m) /\ peer[h] = "open") => Written(h) = <<m>>)
                /\ (~(Serializable(m) /\ peer[h] = "open") => Written(h) = <<>>))]_vars

\* a send found a registered handle, its write failed, and the call returned
C9_Witness ==
  /\ call.op = "send_message"
  /\ call.result = "returned"
  /\ call.handle # NoHandle
  /\ active_connections[call.key] = call.handle
  /\ outbox[call.handle] = <<>>

\* C10: registry overwrite. A connect under a session id that already has an
\* entry replaces the handle; from then on every frame sent under that id is
\* written to the handle the registry holds, and a handle that has been
\* replaced is never written to again.
C10_RegistryOverwrite ==
  [][/\ \A c \in Conns, q \in QueryParams :
          WsConnect(c, q)
          => active_connections' =
               [active_connections EXCEPT ![QuerySessionId(q)] = c]
     /\ \A c \in Conns :
          (pc[c] # "idle" /\ active_connections[session_id[c]] # c)
          => outbox'[c] = outbox[c]
     /\ \A h \in WrittenTo : \A i \in 1..Len(Written(h)) :
          active_connections[Written(h)[i].session_id] = h]_vars

\* ws2 connected under the id of the still open ws1; a frame ws1 then read
\* was answered on ws2
C10_Witness ==
  /\ session_id["ws1"] = session_id["ws2"]
  /\ pc["ws1"] = "reading"
  /\ peer["ws1"] = "open"
  /\ active_connections[session_id["ws1"]] = "ws2"
  /\ nread["ws1"] = 1
  /\ nread["ws2"] = 0
  /\ Len(outbox["ws2"]) = 1
  /\ outbox["ws1"] = <<>>

\* C11: disconnect is idempotent. disconnect(S) never raises, whether S is
\* registered, was disconnected before or was never connected; afterwards the
\* registry has no entry for S and every other entry is as it was.
C11_DisconnectIdempotent ==
  [][\A sid \in SessionIds :
       MgrDisconnect(sid)
       => /\ call'.result = "returned"
          /\ active_connections'[sid] = NoHandle
          /\ \A s \in SessionIds \ {sid} :
               active_connections'[s] = active_connections[s]]_vars

\* a disconnect for an id without an entry returned, another entry in place
C11_Witness ==
  /\ call.op = "disconnect"
  /\ call.handle = NoHandle
  /\ call.result = "returned"
  /\ active_connections[call.key] = NoHandle
  /\ \E s \in SessionIds : active_connections[s] # NoHandle

\* C12: connect records S -> handle only after the accept handshake. If
\* accept fails the registry is unchanged; on success the entry for S is the
\* handle, the size grows by one when S was absent and stays when S was
\* present, and the entries of all other ids are untouched.
C12_ConnectAfterAccept ==
  [][\A ws \in Conns, sid \in SessionIds :
       /\ MgrConnectFail(ws, sid) => active_connections' = active_connections
       /\ MgrConnect(ws, sid)
            => /\ active_connections'[sid] = ws
               /\ RegistrySize(active_connections') =
                    RegistrySize(active_connections)
                      + (IF active_connections[sid] = NoHandle THEN 1 ELSE 0)
               /\ \A s \in SessionIds \ {sid} :
                    active_connections'[s] = active_connections[s]]_vars

\* a connect whose accept raised left the id without an entry, next to the
\* entry of an earlier successful connect
C12_Witness ==
  /\ call.op = "connect"
  /\ call.result = "raised"
  /\ active_connections[call.key] = NoHandle
  /\ RegistrySize(active_connections) = 1

\* the helper calls of the telemetry emitter
EmitOps == {"emit_tool_call", "emit_tool_result", "emit_openai_call"}

\* C13: telemetry is best-effort. With a manager whose send_message raises
\* on every call, emit_tool_call, emit_tool_result and emit_openai_call each
\* return normally, and so does a helper whose event construction raises;
\* in both cases nothing is written to any handle.
C13_EmitNeverRaises ==
  [][(call'.op \in EmitOps /\ ncalls' # ncalls)
       => /\ call'.result = "returned"
          /\ (call'.handle = NoHandle => WrittenTo = {})]_vars

\* a helper built its event, the send under a registered id with an open
\* peer raised, and the helper returned
C13_Witness ==
  /\ call.op \in EmitOps
  /\ call.envelope # Missing
  /\ call.handle = NoHandle
  /\ active_connections[call.key] # NoHandle
  /\ peer[active_connections[call.key]] = "open"
  /\ call.result = "returned"
  /\ \A h \in Conns : outbox[h] = <<>>

\* C14: end-to-end ordering. A valid message frame on an open connection
\* with session id S puts on that connection, in this order, an openai_call
\* telemetry frame (before the agent is invoked), an openai_response frame
\* carrying duration_ms (after the agent returned or raised) and then one
\* AssistantMessage with session_id S and streaming false.
C14_TelemetryAroundAgent ==
  [][\A c \in Conns :
       (/\ pc[c] \in {"acquiring", "running"}
        /\ pc'[c] = "reading"
        /\ Registered(c)
        /\ user_message[c].session_id = session_id[c])
       => LET frames == SubSeq(outbox'[c], Len(outbox'[c]) - 2, Len(outbox'[c])) IN
          /\ Len(outbox'[c]) >= 3
          /\ frames[1].type = "openai_call"
          /\ frames[2].type = "openai_response"
          /\ frames[2].duration_ms # <<>>
          /\ frames[3] = AssistantMessage(session_id[c], frames[3].content, FALSE)]_vars

\* the entries of a transcript laid out one per line
RECURSIVE Lines(_)
Lines(h) ==
  IF h = <<>> THEN <<>>
  ELSE IF Len(h) = 1 THEN h[1]
  ELSE Lines(SubSeq(h, 1, Len(h) - 1)) \o <<"\n">> \o h[Len(h)]

\* task t enters process in this step
ProcessEntered(t) == pc[t] # "acquiring" /\ pc'[t] = "acquiring"

\* C15: transcript accumulation. The prompt of the k-th message of a session
\* is every earlier transcript entry in order, then "User: {content_k}", one
\* per line, ended with "\nAssistant:"; the prompt of the second call holds
\* both entries of the first turn, in order.
C15_PromptIsTranscript ==
  [][\A t \in Tasks :
       ProcessEntered(t)
       => LET sid == user_message'[t].session_id
              turn == <<"User: ">> \o user_message'[t].content
          IN /\ sessions'[sid] = Append(sessions[sid], turn)
             /\ prompt'[t] = Lines(Append(sessions[sid], turn)) \o <<"\nAssistant:">>
             /\ (sessions[sid] = <<(<<"User: ", "hi">>), (<<"Assistant: ", "ok">>)>>
                   => prompt'[t] = <<"User: ", "hi", "\n", "Assistant: ", "ok", "\n",
                                     "User: ", "hi", "\nAssistant:">>)]_vars

\* the second message of a session is at the agent with both earlier entries
\* in its prompt
C15_Witness ==
  \E t \in Tasks :
    /\ pc[t] = "acquiring"
    /\ prompt[t] = <<"User: ", "hi", "\n", "Assistant: ", "ok", "\n",
                     "User: ", "hi", "\nAssistant:">>

\* a message is in process on connection c
InProcess(c) == pc[c] \in {"acquiring", "running"}

\* C16: within one connection's task frames are processed one after the
\* other. A frame is read only when no message of the connection is in
\* process (its user turn appended, its agent call over, its reply handed to
\* send_message); while one is in process no frame is read and its begin is
\* not repeated; so replies are sent in the order of their frames.
C16_FramesSequential ==
  [][\A c \in Conns :
       /\ nread'[c] # nread[c]
            => /\ pc[c] = "reading"
               /\ user_message[c] = NoMessage
               /\ nread'[c] = nread[c] + 1
       /\ InProcess(c)
            => /\ nread'[c] = nread[c]
               /\ user_message'[c] \in {user_message[c], NoMessage}
               /\ (user_message'[c] = NoMessage <=> pc'[c] \notin {"acquiring", "running"})
       /\ (InProcess(c) /\ pc'[c] = "reading")
            => \A h \in WrittenTo :
                 Written(h) = <<AssistantMessage(user_message[c].session_id,
                                                 Written(h)[1].content, FALSE)>>]_vars

\* the second frame of a connection is in process after the first was
\* answered
C16_Witness ==
  \E c \in Conns :
    /\ nread[c] = 2
    /\ InProcess(c)
    /\ Len(outbox[c]) = 1
    /\ outbox[c][1].type = "assistant"
    /\ Len(sessions[user_message[c].session_id]) = 3

\* C17: a disconnect signalled while the loop is reading is normal
\* termination. The loop deregisters the connection's session id, writes no
\* frame (no error envelope), moves to closed, and a closed loop never reads
\* or moves again.
C17_DisconnectIsNormalExit ==
  [][\A c \in Conns :
       /\ WsDisconnect(c)
            => /\ active_connections'[session_id[c]] = NoHandle
               /\ \A s \in SessionIds \ {session_id[c]} :
                    active_connections'[s] = active_connections[s]
               /\ outbox' = outbox
               /\ pc'[c] = "closed"
       /\ pc[c] = "closed"
            => /\ pc'[c] = "closed"
               /\ nread'[c] = nread[c]
               /\ session_id'[c] = session_id[c]]_vars

\* a loop that had read and answered a frame ended on the disconnect signal
C17_Witness ==
  \E c \in Conns :
    /\ pc[c] = "closed"
    /\ peer[c] = "closed"
    /\ nread[c] = 1
    /\ Len(outbox[c]) = 1
    /\ active_connections[session_id[c]] = NoHandle

\* C18: a slow or hung agent call blocks only its own task. While the call
\* of task a is pending, every other connection b that has a frame to read
\* can read it (whatever the frame), and a message of b that is in process
\* can acquire its agent and be answered.
C18_OthersNotBlocked ==
  \A a \in Tasks, b \in Conns :
    (a # b /\ pc[a] \in {"acquiring", "running"})
    => /\ (pc[b] = "reading" /\ peer[b] = "open" /\ Requests < MaxRequests)
            => \A raw \in Frames : ENABLED WsReceive(b, raw)
       /\ pc[b] = "acquiring" => ENABLED AcquireOk(b)
       /\ pc[b] = "running" => \A out \in AgentOutputs : ENABLED AgentReturn(b, out)

\* the call of task a is still pending; connection b's message for the same
\* session was begun and answered in the meantime
C18_Witness ==
  \E a \in Tasks, b \in Conns :
    /\ a # b
    /\ pc[a] = "running"
    /\ pc[b] = "reading"
    /\ nread[b] = 1
    /\ Len(outbox[b]) = 1
    /\ outbox[b][1].type = "assistant"
    /\ sessions[user_message[a].session_id] =
         <<(<<"User: ", "hi">>), (<<"User: ", "hi">>), (<<"Assistant: ", "ok">>)>>

\* the frames of the telemetry emitter
TelemetryTypes == {"tool_call", "tool_result", "openai_call", "openai_response"}

\* C19: every envelope handed to send_message by a connection loop or by a
\* helper of the telemetry emitter carries a session_id field equal to the
\* routing key it is sent under.
C19_EnvelopeMatchesKey ==
  (call.op \in {"send_message"} \cup EmitOps /\ call.envelope # Missing)
  => call.envelope = call.key

\* a loop handed its reply to send_message under the id the envelope
\* carries, after a helper's event had gone out on the same handle
C19_Witness ==
  /\ call.op = "send_message"
  /\ call.envelope = call.key
  /\ call.handle # NoHandle
  /\ Len(outbox[call.handle]) = 2
  /\ outbox[call.handle][1].type \in TelemetryTypes
  /\ outbox[call.handle][1].session_id = call.key
  /\ outbox[call.handle][2].type = "assistant"

\* C20: the trace query never raises. On a timeout, an HTTP error or any
\* other exception query_traces_by_session returns an empty list; GET
\* /telemetry/{session_id} then answers 200 with no spans and trace_count 0;
\* trace_count is the number of distinct trace ids among the returned spans;
\* the answer is 500 only when the query call itself raises.
C20_QueryNeverRaises ==
  /\ (telemetry.op \in {"query", "get"} /\ ~telemetry.patched)
       => /\ telemetry.query = "returned"
          /\ (telemetry.backend # "ok" => telemetry.spans = <<>>)
  /\ telemetry.op = "get"
       => /\ telemetry.status \in {"200", "500"}
          /\ (telemetry.status = "500" <=> telemetry.patched)
          /\ (telemetry.status = "200" =>
                /\ telemetry.trace_count =
                     Cardinality({t \in TraceIds :
                       \E i \in 1..Len(telemetry.spans) : telemetry.spans[i].trace_id = t})
                /\ (telemetry.backend # "ok" =>
                      telemetry.spans = <<>> /\ telemetry.trace_count = 0))

\* GET /telemetry answered 200 with an empty list after the body Jaeger sent
\* could not be read as JSON
C20_Witness ==
  /\ telemetry.op = "get"
  /\ telemetry.backend = "bad_json"
  /\ telemetry.status = "200"
  /\ telemetry.spans = <<>>
  /\ telemetry.trace_count = 0

C22_DurationNonNegative ==
  \A h \in Conns : \A i \in 1..Len(outbox[h]) :
    /\ outbox[h][i].type = "tool_result" => outbox[h][i].duration_ms >= 0
    /\ outbox[h][i].type = "openai_response"
         => /\ outbox[h][i].duration_ms # <<>>
            /\ outbox[h][i].duration_ms[1] >= 0

\* C23: the agent is invoked under a scoped acquisition. On every exit path
\* of process (the agent returns, the agent raises, entering it fails) what
\* was acquired is released: at every state the agents acquired and not
\* released are exactly those of the process calls inside the agent
\* invocation, and a task outside process holds none.
C23_ScopedAcquisition ==
  /\ acquired = Held
  /\ Cardinality(acquired) = Cardinality({t \in Tasks : pc[t] = "running"})
  /\ \A t \in Tasks : pc[t] \notin {"acquiring", "running"} => t \notin acquired

\* a run that raised has ended (the transcript holds its error turn) while
\* another task is still inside its own agent invocation
C23_Witness ==
  \E t \in Tasks, s \in SessionIds :
    /\ pc[t] = "running"
    /\ acquired = {t}
    /\ \E i \in 1..Len(sessions[s]) :
         sessions[s][i] = <<"Assistant: ">> \o ErrorOutput(<<"boom">>)

\* C24: a failed send never changes the registry. send_message, called by a
\* loop, by a helper of the emitter or directly, leaves the map from session
\* ids to handles as it was when the entry is missing, when the write
\* succeeds and when the write fails; an entry disappears only in a step of
\* disconnect for its session id.
C24_SendKeepsRegistry ==
  [][/\ (ncalls' # ncalls /\ call'.op \in {"send_message"} \cup EmitOps)
          => active_connections' = active_connections
     /\ \A s \in SessionIds :
          (active_connections[s] # NoHandle /\ active_connections'[s] = NoHandle)
          => (call'.op = "disconnect" /\ call'.key = s /\ ncalls' # ncalls)]_vars

\* send_message has just returned from a write that failed on a handle whose
\* peer is gone, and the entry it was sent under is still in the map
C24_Witness ==
  /\ call.op = "send_message"
  /\ call.result = "returned"
  /\ call.handle # NoHandle
  /\ peer[call.handle] = "closed"
  /\ outbox[call.handle] = <<>>
  /\ active_connections[call.key] = call.handle

\* the loop of c has ended: by the disconnect exit or by an exception that
\* left ws_chat
Ended(c) == pc[c] \in {"closed", "crashed"}

\* C25: each connection's loop follows CONNECTING -> OPEN -> (reading <->
\* processing) -> CLOSED. Processing is entered only from reading, on a
\* frame that decoded as a message of type "message"; the only way out of
\* processing is back to reading; a loop that has ended stays ended, and the
\* server registers a handle only when it opens it, never again afterwards.
C25_LoopStateMachine ==
  [][\A c \in Conns :
       /\ pc[c] = "idle" => pc'[c] \in {"idle", "reading", "crashed"}
       /\ pc[c] = "reading" => pc'[c] \in {"reading", "acquiring", "closed", "crashed"}
       /\ (pc[c] # "acquiring" /\ pc'[c] = "acquiring")
            => /\ pc[c] = "reading"
               /\ \E raw \in Frames :
                    /\ WsReceiveValid(c, raw)
                    /\ Decode(raw) = "ok"
                    /\ raw.type = "message"
       /\ pc[c] = "acquiring" => pc'[c] \in {"acquiring", "running", "reading"}
       /\ pc[c] = "running" => pc'[c] \in {"running", "reading"}
       /\ Ended(c) => pc'[c] = pc[c]
       /\ \A s \in SessionIds :
            (active_connections'[s] = c /\ active_connections[s] # c)
            => (pc[c] = "idle" /\ pc'[c] = "reading")]_vars

\* a loop opened, read a message, processed it, sent the reply, went back to
\* reading and ended on the client's disconnect
C25_Witness ==
  \E c \in Conns :
    /\ pc[c] = "closed"
    /\ nread[c] = 1
    /\ Len(outbox[c]) = 1
    /\ outbox[c][1].type = "assistant"

\* a JSON object with the members of an inbound envelope (session_id and
\* content present) whose type is not "message"
EnvelopeOfOtherType(raw) ==
  /\ WrongType(raw)
  /\ raw.session_id # Missing
  /\ raw.content # NoContent

\* C26 as stated: a frame with the shape of an inbound envelope whose type is
\* not "message" is silently ignored: no outbound frame is produced for it,
\* no transcript is modified and the loop stays in reading.
C26_OtherTypeIgnored ==
  [][\A c \in Conns, raw \in Frames :
       (WsReceive(c, raw) /\ EnvelopeOfOtherType(raw))
       => /\ WrittenTo = {}
          /\ sessions' = sessions
          /\ pc'[c] = "reading"]_vars

\* C26 amended: such a frame is not ignored. It fails the validation of
\* UserMessage and takes the error path: no transcript is modified and the
\* loop stays in reading, but an error envelope is handed to send_message
\* under the connection's session id and is written to the receiving
\* connection when the registry holds it; the branch that would pass over a
\* decoded frame of another type is never taken, every frame that decodes
\* has type "message" and enters process.
C26_OtherTypeRejected ==
  [][\A c \in Conns, raw \in Frames :
       /\ (WsReceive(c, raw) /\ EnvelopeOfOtherType(raw))
            => /\ sessions' = sessions
               /\ pc'[c] = "reading"
               /\ call'.op = "send_message"
               /\ call'.key = session_id[c]
               /\ (Registered(c)
                     => /\ WrittenTo = {c}
                        /\ Len(Written(c)) = 1
                        /\ Written(c)[1].type = "error")
       /\ WsReceiveValid(c, raw)
            => (raw.type = "message" /\ pc'[c] = "acquiring")]_vars

\* the first frame a connection read had the shape of an envelope and
\* another type: an error frame naming it is on the handle, every transcript
\* is empty and the loop reads on
C26_Witness ==
  \E c \in Conns :
    /\ pc[c] = "reading"
    /\ nread[c] = 1
    /\ Len(outbox[c]) = 1
    /\ outbox[c][1].type = "error"
    /\ Len(outbox[c][1].error) = 4
    /\ outbox[c][1].error[3] = "invalid_type"
    /\ outbox[c][1].error[4] \in SessionIds
    /\ \A s \in SessionIds : sessions[s] = <<>>

\* the entries of a transcript written by one speaker
EntriesOf(h, speaker) == Cardinality({i \in 1..Len(h) : h[i][1] = speaker})

\* the process calls in flight for session s: the user turn appended, the
\* assistant turn not yet
InFlight(s) ==
  Cardinality({t \in Tasks : InProcess(t) /\ user_message[t].session_id = s})

\* C27: transcript mutations are atomic and never lost under any
\* interleaving of tasks at their suspension points. For every session the
\* "Assistant:" entries never outnumber the "User:" entries, the difference
\* is the number of process calls in flight for the session, and after n
\* completed calls (none in flight) the transcript has exactly 2n entries.
C27_TranscriptCounts ==
  \A s \in SessionIds :
    /\ EntriesOf(sessions[s], "Assistant: ") <= EntriesOf(sessions[s], "User: ")
    /\ EntriesOf(sessions[s], "User: ") - EntriesOf(sessions[s], "Assistant: ")
         = InFlight(s)
    /\ EntriesOf(sessions[s], "Assistant: ") = completed[s]
    /\ Len(sessions[s]) = 2 * completed[s] + InFlight(s)
    /\ (InFlight(s) = 0 => Len(sessions[s]) = 2 * completed[s])

\* two calls for one session were in flight at once (both user turns came
\* before the first assistant turn); one has completed, the other has not
C27_Witness ==
  \E s \in SessionIds :
    /\ completed[s] = 1
    /\ InFlight(s) = 1
    /\ Len(sessions[s]) = 3
    /\ sessions[s][1][1] = "User: "
    /\ sessions[s][2][1] = "User: "
    /\ sessions[s][3][1] = "Assistant: "

\* g is h with zero or more entries added at the end
IsPrefix(h, g) == Len(h) <= Len(g) /\ SubSeq(g, 1, Len(h)) = h

\* C28: each session transcript is append-only for the process lifetime. In
\* every step the previous transcript of every session is a prefix of the
\* new one (no entry removed, reordered or rewritten), and a step in which a
\* connection opens or its loop ends leaves every transcript as it was.
C28_TranscriptAppendOnly ==
  [][/\ \A s \in SessionIds : IsPrefix(sessions[s], sessions'[s])
     /\ \A c \in Conns :
          ((pc[c] = "idle" /\ pc'[c] # "idle") \/ (~Ended(c) /\ Ended(c)'))
          => sessions' = sessions]_vars

\* a connection had its turn answered and disconnected; another connection
\* is open under the same session id and the transcript still holds the turn
C28_Witness ==
  \E c, d \in Conns :
    /\ c # d
    /\ pc[c] = "closed"
    /\ nread[c] = 1
    /\ pc[d] = "reading"
    /\ nread[d] = 0
    /\ session_id[d] = session_id[c]
    /\ Len(sessions[session_id[c]]) = 2
    /\ sessions[session_id[c]][1][1] = "User: "
    /\ sessions[session_id[c]][2][1] = "Assistant: "

\* a helper of the emitter is called in this step
EmitStep == call'.op \in EmitOps /\ ncalls' # ncalls

\* C29: telemetry delivery failures never affect the chat response path.
\* Whether an emitted event's registry lookup misses, its serialization
\* fails or its transport write fails, the helper returns and leaves every
\* task, transcript and pending request as it was; and every request a loop
\* has in process still ends with the assistant turn appended to its
\* transcript and an AssistantMessage handed to send_message.
C29_TelemetryFailureHarmless ==
  [][/\ EmitStep
          => /\ call'.result = "returned"
             /\ UNCHANGED <<pc, sessions, user_message, prompt, acquired,
                            completed, response, peer, active_connections>>
             /\ (call'.handle = NoHandle \/ peer[call'.handle] # "open"
                   \/ call'.envelope = Missing)
                  => WrittenTo = {}
     /\ \A c \in Conns :
          (InProcess(c) /\ ~InProcess(c)')
          => /\ pc'[c] = "reading"
             /\ \E out \in AgentOutputs \cup {ErrorOutput(e) : e \in AgentErrors} :
                  /\ sessions' = AppendAssistant(sessions, user_message[c].session_id, out)
                  /\ call'.op = "send_message"
                  /\ call'.key = ReplySessionId(c)
                  /\ (Registered(c) /\ active_connections[ReplySessionId(c)] = c)
                       => Written(c) = <<AssistantMessage(ReplyEnvelopeSessionId(c), out, FALSE)>>]_vars

\* while a connection's request is inside the agent run, a helper was called
\* under the connection's session id with an event it had built; the handle
\* was found, nothing could be written to it, and the helper returned
C29_Witness ==
  \E c \in Conns :
    /\ pc[c] = "running"
    /\ call.op \in EmitOps
    /\ call.envelope # Missing
    /\ call.result = "returned"
    /\ call.key = session_id[c]
    /\ call.handle = c
    /\ peer[c] = "closed"
    /\ outbox[c] = <<>>

\* the event type each helper builds
EventTypesOf(op) ==
  IF op = "emit_tool_call" THEN {"tool_call"}
  ELSE IF op = "emit_tool_result" THEN {"tool_result"}
  ELSE {"openai_call", "openai_response"}

\* C30: each emit helper, when it has built its event, calls send_message
\* exactly once with the caller's session id: at most one frame is written,
\* of the helper's type, carrying that id, at the end of what the handle
\* registered under that id already holds, and a tool result or model event
\* sent to a registered open handle is always written. Helpers awaited one
\* after another therefore reach the handle in invocation order, a tool-call
\* event before the tool-result event emitted after it.
C30_EmitOnceInOrder ==
  [][(EmitStep /\ call'.envelope # Missing)
       => /\ call'.envelope = call'.key
          /\ WrittenTo \subseteq {active_connections[call'.key]} \ {NoHandle}
          /\ \A h \in WrittenTo :
               /\ IsPrefix(outbox[h], outbox'[h])
               /\ Len(Written(h)) = 1
               /\ Written(h)[1].type \in EventTypesOf(call'.op)
               /\ Written(h)[1].session_id = call'.key
          /\ \A h \in Conns \ WrittenTo : outbox'[h] = outbox[h]
          /\ (/\ call'.op \in {"emit_tool_result", "emit_openai_call"}
              /\ call'.handle # NoHandle
              /\ peer[call'.handle] = "open")
               => WrittenTo = {call'.handle}]_vars

\* emit_tool_call and then emit_tool_result were called under one session
\* id: the handle holds the tool-call event first, the tool-result event
\* second, and nothing else
C30_Witness ==
  /\ call.op = "emit_tool_result"
  /\ call.handle # NoHandle
  /\ Len(outbox[call.handle]) = 2
  /\ outbox[call.handle][1].type = "tool_call"
  /\ outbox[call.handle][1].session_id = call.key
  /\ outbox[call.handle][2].type = "tool_result"
  /\ outbox[call.handle][2].session_id = call.key

RECURSIVE Flatten(_)
\* the spans of all traces, one trace after the other
Flatten(traces) ==
  IF traces = <<>> THEN <<>> ELSE Head(traces) \o Flatten(Tail(traces))

\* a span that is relevant and converts without error
Kept(jaeger_span) == IsRelevantSpan(jaeger_span) /\ ~ConvertRaises(jaeger_span)

\* C31: _parse_jaeger_response returns exactly the spans that are relevant
\* and convert without error, converted, in their input order across
\* traces; a span whose conversion raises is skipped, and no other span is
\* dropped and the call is not aborted.
C31_ParseKeepsConvertible ==
  telemetry.op = "parse"
  => /\ telemetry.query = "returned"
     /\ LET kept == SelectSeq(Flatten(telemetry.input), Kept) IN
        /\ Len(telemetry.spans) = Len(kept)
        /\ \A i \in 1..Len(kept) : telemetry.spans[i] = ConvertJaegerSpan(kept[i])

\* the response held a relevant span whose conversion raises, followed by a
\* relevant span in another trace, which is the one span returned
C31_Witness ==
  /\ telemetry.op = "parse"
  /\ Len(telemetry.input) = 2
  /\ IsRelevantSpan(telemetry.input[1][1])
  /\ ConvertRaises(telemetry.input[1][1])
  /\ Kept(telemetry.input[2][1])
  /\ Len(telemetry.spans) = 1
  /\ telemetry.spans[1].span_id = telemetry.input[2][1].spanID

\* C32: _convert_jaeger_span yields end_time = start_time + duration;
\* parent_span_id is the span id of the first CHILD_OF reference and null
\* when there is none; status is "ERROR" exactly when the otel.status_code
\* tag has the value "ERROR" and "OK" otherwise; error_message is non-null
\* only when status is "ERROR" and an error.message tag exists (and is then
\* that tag's value).
C32_ConvertFields ==
  (telemetry.op = "convert" /\ telemetry.query = "returned")
  => LET x == telemetry.input[1]
         r == telemetry.spans[1]
         refs == x.references
     IN
     /\ r.start_time = x.startTime
     /\ r.duration = x.duration
     /\ r.end_time = r.start_time + r.duration
     /\ (\A i \in 1..Len(refs) : refs[i].refType # "CHILD_OF")
          => r.parent_span_id = Null
     /\ \A i \in 1..Len(refs) :
          (/\ refs[i].refType = "CHILD_OF"
           /\ \A j \in 1..(i - 1) : refs[j].refType # "CHILD_OF")
          => r.parent_span_id = refs[i].spanID
     /\ r.status \in {"OK", "ERROR"}
     /\ r.status = "ERROR"
          <=> \E i \in 1..Len(x.tags) : x.tags[i] = Tag("otel.status_code", "ERROR")
     /\ r.error_message # Null
          => /\ r.status = "ERROR"
             /\ \E i \in 1..Len(x.tags) :
                  x.tags[i] = Tag("error.message", r.error_message)

\* a span with two CHILD_OF references, an ERROR status and an error
\* message was converted: parent p1, end time 2700, the message kept
C32_Witness ==
  /\ telemetry.op = "convert"
  /\ telemetry.query = "returned"
  /\ Len(telemetry.input[1].references) = 2
  /\ telemetry.input[1].references[1].refType = "CHILD_OF"
  /\ telemetry.input[1].references[2].refType = "CHILD_OF"
  /\ telemetry.spans[1].parent_span_id = "p1"
  /\ telemetry.spans[1].end_time = 2700
  /\ telemetry.spans[1].status = "ERROR"
  /\ telemetry.spans[1].error_message = "Connection failed"

\* d is open, its loop is running, and the registry holds no entry for its
\* session id
Orphaned(d) ==
  /\ pc[d] \in {"reading", "acquiring", "running"}
  /\ peer[d] = "open"
  /\ active_connections[session_id[d]] = NoHandle

\* C33: when two connections share a session id S, the second having
\* replaced the first in the registry, and the older one disconnects, its
\* loop's disconnect(S) removes the entry that points to the newer, still
\* open connection; and while the registry has no entry for S, a
\* send_message under S writes to no handle, the open newer connection
\* included.
C33_OldDisconnectOrphansNew ==
  [][\A c, d \in Conns :
       /\ (/\ c # d
           /\ WsDisconnect(c)
           /\ session_id[d] = session_id[c]
           /\ active_connections[session_id[c]] = d
           /\ pc[d] \in {"reading", "acquiring", "running"}
           /\ peer[d] = "open")
            => /\ active_connections'[session_id[c]] = NoHandle
               /\ pc'[c] = "closed"
               /\ Orphaned(d)'
       /\ (/\ Orphaned(d)
           /\ FrameDone(d)
           /\ pc'[d] = "reading"
           /\ call'.key = session_id[d])
            => /\ call'.op = "send_message"
               /\ call'.handle = NoHandle
               /\ WrittenTo = {}]_vars

\* the older of two connections under one id has disconnected; the newer,
\* still open, then read a frame and its answer, sent under that id, was
\* written nowhere
C33_Witness ==
  \E c, d \in Conns :
    /\ c # d
    /\ pc[c] = "closed"
    /\ session_id[c] = session_id[d]
    /\ Orphaned(d)
    /\ pc[d] = "reading"
    /\ nread[d] = 1
    /\ call.op = "send_message"
    /\ call.key = session_id[d]
    /\ call.handle = NoHandle
    /\ outbox[d] = <<>>

\* C34: in every reachable state each handle stored in the registry belongs
\* to a connection whose loop is still running; once a connection's loop has
\* ended, by the disconnect signal or by an exception leaving the loop, the
\* registry maps no session id to its handle.
C34_RegistryHoldsLiveLoops ==
  \A s \in SessionIds :
    active_connections[s] # NoHandle
    => pc[active_connections[s]] \in {"reading", "acquiring", "running"}

\* C35: when several process calls for one session id run concurrently, the
\* session transcript still strictly alternates "User:" and "Assistant:"
\* entries, starting with "User:", so that each "Assistant:" entry directly
\* follows the "User:" entry it answers.
C35_TranscriptAlternates ==
  \A s \in SessionIds : \A i \in 1..Len(sessions[s]) :
    sessions[s][i][1] = IF i % 2 = 1 THEN "User: " ELSE "Assistant: "

\* every transcript but that of session s stays as it is in this step
OthersUnchanged(s) == \A o \in SessionIds \ {s} : sessions'[o] = sessions[o]

\* C36: processing a message for session S, over WebSocket or POST /chat,
\* leaves the transcript of every other session unchanged, at the call's
\* start (the user turn) and at its end (the assistant turn), and both turns
\* go to S's transcript; a frame rejected at decoding or validation leaves
\* every transcript unchanged.
C36_OtherTranscriptsUntouched ==
  [][/\ \A c \in Conns, raw \in Frames :
          /\ WsReceiveValid(c, raw)
               => /\ OthersUnchanged(raw.session_id)
                  /\ Len(sessions'[raw.session_id]) = Len(sessions[raw.session_id]) + 1
          /\ (WsReceive(c, raw) /\ Decode(raw) # "ok") => sessions' = sessions
     /\ \A t \in Https, sid \in SessionIds, m \in Contents :
          HttpChat(t, sid, m)
          => /\ OthersUnchanged(sid)
             /\ Len(sessions'[sid]) = Len(sessions[sid]) + 1
     /\ \A t \in Tasks :
          (InProcess(t) /\ ~InProcess(t)')
          => /\ OthersUnchanged(user_message[t].session_id)
             /\ Len(sessions'[user_message[t].session_id])
                  = Len(sessions[user_message[t].session_id]) + 1]_vars

\* a message for session A was processed to its end and a frame was
\* rejected with an error envelope; the default session's transcript is
\* still empty
C36_Witness ==
  /\ Len(sessions["A"]) = 2
  /\ sessions[DefaultSessionId] = <<>>
  /\ \E c \in Conns : \E i \in 1..Len(outbox[c]) : outbox[c][i].type = "error"
  /\ \A t \in Tasks : ~InProcess(t)

\* C37: a connection opened without a session_id query parameter is
\* registered under the fixed id "default": two such connections share that
\* one registry key, the later replacing the earlier, and the error envelope
\* for a frame either of them rejects is routed under "default", to the
\* handle that key holds.
C37_DefaultKeyShared ==
  [][\A c \in Conns :
       /\ WsConnect(c, Absent)
            => /\ session_id'[c] = "default"
               /\ active_connections' = [active_connections EXCEPT !["default"] = c]
       /\ \A raw \in Frames :
            (WsReceiveInvalid(c, raw) /\ session_id[c] = "default")
            => /\ call'.op = "send_message"
               /\ call'.key = "default"
               /\ call'.envelope = "default"
               /\ call'.handle = active_connections["default"]
               /\ WrittenTo \subseteq {active_connections["default"]}]_vars

\* two connections opened without the parameter; the later holds the key
\* "default" and received the error envelope for a frame the earlier sent
C37_Witness ==
  /\ session_id["ws1"] = "default"
  /\ session_id["ws2"] = "default"
  /\ pc["ws1"] = "reading"
  /\ pc["ws2"] = "reading"
  /\ active_connections["default"] = "ws2"
  /\ active_connections["A"] = NoHandle
  /\ nread["ws1"] = 1
  /\ nread["ws2"] = 0
  /\ outbox["ws1"] = <<>>
  /\ Len(outbox["ws2"]) = 1
  /\ outbox["ws2"][1].type = "error"
  /\ outbox["ws2"][1].session_id = "default"

====
